---- MODULE Spec2Model ----
(***************************************************************************)
(* The actor-critic training loop of src/main.py (train and main): episode *)
(* rollout, bootstrap, reverse GAE loop and the two optimizer updates.     *)
(*                                                                         *)
(* Conventions.                                                            *)
(*  - Python lists are 0-based, TLA+ sequences 1-based: list index k is    *)
(*    sequence index k+1; the loop variable i of the reverse loop holds    *)
(*    the sequence index (Python i plus one).                              *)
(*  - A tensor is a record [v, deps]: v its number, deps the models whose  *)
(*    autodiff graph it hangs on ({} after detach()).                      *)
(*  - The actor's output is kept as exp(logit), a positive integer weight, *)
(*    so that logit + mask.log() is weight * mask and softmax is           *)
(*    weight / sum; a probability is the pair <<numerator, denominator>>.  *)
(*  - log and the entropy sum are not computable on integers: a log-       *)
(*    probability is the record [log |-> p] and an entropy [H |-> dist].   *)
(*  - Model parameters are named by their version: an optimizer step       *)
(*    produces the next version.                                           *)
(***************************************************************************)
EXTENDS Integers, Sequences, FiniteSets, TLC

\* ------------------------------------------------------------ bounds
MaxNumEpoch == 2
MaxTrainSize == 2
MaxMaxStep == 2
GaeMaxLen == 3
GaeMaxValue == 4

\* ------------------------------------------------- external collaborators
\* Observation pairs (mc_state, sn_state) an Environment can return.
Obs == {<<0, 0>>, <<0, 1>>}

\* Rewards an Environment returns: a vector whose first entry is the time
\* (a unit of time per step), the second a distance the loop never reads.
Rewards == {<<1, 7>>}

\* exp(logit) rows the policy model can produce.
ActorTable == << <<2, 5, 3>>, <<5, 5, 2>>, <<1, 1, 1>>, <<3, 2, 5>> >>

\* env.action_space.n
action_space_n == Len(ActorTable[1])

Actions == 1..action_space_n

\* actor(mc_state, sn_state) under the given parameters.
Actor(mc, sn, params) == ActorTable[((mc + sn + params) % Len(ActorTable)) + 1]

\* critic(mc_state, sn_state) under the given parameters: a [1,1] tensor.
Critic(mc, sn, params) == [v |-> ((mc + sn + params) % 2) + 1, deps |-> {"critic"}]

\* ------------------------------------------------------ tensor helpers
\* torch.zeros(1, 1)
Zeros == [v |-> 0, deps |-> {}]

\* tensor.detach()
Detach(t) == [v |-> t.v, deps |-> {}]

RECURSIVE SumSeq(_)
SumSeq(s) == IF s = <<>> THEN 0 ELSE Head(s) + SumSeq(Tail(s))

\* torch.ones(n)
Ones(n) == [a \in 1..n |-> 1]

\* The mask left out: logit alone.
AddMaskLogSkipped(logit, m) == logit

\* logit + mask.log(), on weights: a forbidden action gets weight 0.
AddMaskLog(logit, m) == [a \in DOMAIN logit |-> logit[a] * m[a]]

\* F.softmax(logit, dim=-1)
Softmax(w) == [a \in DOMAIN w |-> <<w[a], SumSeq(w)>>]

\* F.log_softmax(logit, dim=-1)
LogSoftmax(w) == [a \in DOMAIN w |-> [log |-> Softmax(w)[a]]]

\* -(log_prob * prob).sum(1, keepdim=True)
EntropyOf(lp, p) == [H |-> [a \in DOMAIN p |-> lp[a].log], deps |-> {"actor"}]

\* Off by one: range(n) yields n + 1 elements.
RangeHasNextInclusive(k, n) == k <= n

\* range(n) has a next element after k elements were taken.
RangeHasNext(k, n) == k < n

\* module.eval() in place of module.train().
EvalFlag == FALSE

\* module.train(): the value module.training gets.
TrainFlag == TRUE

\* A step that leaves the parameters as they were.
OptimStepSkipped(params) == params

\* optimizer.step(): the next version of the parameters.
OptimStep(params) == params + 1

\* close() on every step, whatever it reported.
CloseAlways(e, d) == "closed"

\* The Environment after a step that reported d: "if done: env.close()".
CloseIfDone(e, d) == IF d THEN "closed" ELSE e

\* torch.distributions.Categorical(prob).sample(): an action of positive
\* probability.
Sample(p) == {a \in DOMAIN p : p[a][1] > 0}

\* Categorical(prob).log_prob(action)
LogProb(p, a) == [log |-> p[a], deps |-> {"actor"}]

\* torch.min in place of torch.max.
TorchMin(p) ==
    LET best == CHOOSE a \in DOMAIN p :
                    /\ \A b \in DOMAIN p : p[b][1] >= p[a][1]
                    /\ \A b \in DOMAIN p : b < a => p[b][1] > p[a][1]
    IN  <<p[best], best>>

\* torch.max(prob, 1): the maximal probability and the first index holding it.
TorchMax(p) ==
    LET best == CHOOSE a \in DOMAIN p :
                    /\ \A b \in DOMAIN p : p[b][1] <= p[a][1]
                    /\ \A b \in DOMAIN p : b < a => p[b][1] < p[a][1]
    IN  <<p[best], best>>

\* prob.log() of the greedy branch
LogOf(p) == [log |-> p, deps |-> {"actor"}]

\* An entry of torch.zeros(len(rewards)) in the policy-loss vector: the
\* loss -log(1) * 0 - entropy_coef * 0.
ZeroPolicyLoss == [log_prob |-> <<1, 1>>, gae |-> 0, entropy |-> <<>>, deps |-> {}]

\* One entry too many.
ZeroLossesTooLong(n, z) == [k \in 1..(n + 1) |-> z]

\* torch.zeros(n), each entry z.
ZeroLosses(n, z) == [k \in 1..n |-> z]

\* -log_probs[i] * gae.detach() - dp.entropy_coef * entropies[i]
PolicyLoss(logp, g, ent) ==
    [log_prob |-> logp.log, gae |-> Detach(g).v, entropy |-> ent.H,
     deps |-> logp.deps \cup ent.deps]

\* 0.5 * advantage.pow(2), counted in halves
ValueLoss(adv) == [v |-> adv.v * adv.v, deps |-> adv.deps]

\* The test on done inverted.
BootstrapValueInverted(d, mc, sn, params) ==
    IF d = "True" THEN Detach(Critic(mc, sn, params)) ELSE Zeros

\* R before the reverse loop: zero after a natural end, else the detached
\* value of the final observation.
BootstrapValue(d, mc, sn, params) ==
    IF d = "False" THEN Detach(Critic(mc, sn, params)) ELSE Zeros

\* delta_t = reward + gamma * values[i + 1] - values[i]
DeltaT(reward, g, vnext, v) ==
    [v |-> reward + g * vnext.v - v.v, deps |-> vnext.deps \cup v.deps]

\* The accumulator dropped: gae = delta_t.
GaeAccNoCarry(acc, g, lam, delta) == [v |-> delta.v, deps |-> delta.deps]

\* gae = gae * gamma * gae_lambda + delta_t
GaeAcc(acc, g, lam, delta) ==
    [v |-> acc.v * g * lam + delta.v, deps |-> acc.deps \cup delta.deps]

\* The models a summed loss back-propagates into.
RECURSIVE LossDeps(_)
LossDeps(s) == IF s = <<>> THEN {} ELSE Head(s).deps \cup LossDeps(Tail(s))

\* ------------------------------------------------------------- state
VARIABLES
    pc,              \* position in main / train
    mode,            \* main's mode argument
    num_epoch, train_size, max_step, gamma, gae_lambda,   \* dp.*
    actor_training, critic_training,   \* module.training flags
    actor_params, critic_params,       \* parameter versions
    actor_grad, critic_grad,           \* state of the .grad buffers
    epoch, idx,                        \* loop counters
    env, alive,      \* the current Environment; Environments created, not closed
    steps,           \* env.step calls made on the current Environment
    mc_state, sn_state,
    mask, values, log_probs, rewards, entropies,
    prob, action, done,
    R, gae, policy_losses, value_losses, i,
    writes           \* how often each loss entry was assigned

config == <<mode, num_epoch, train_size, max_step, gamma, gae_lambda>>
models == <<actor_training, critic_training, actor_params, critic_params,
            actor_grad, critic_grad>>
loops == <<epoch, idx>>
envs == <<env, alive, steps>>
observation == <<mc_state, sn_state>>
trajectory == <<mask, values, log_probs, rewards, entropies, prob, action, done>>
estimator == <<R, gae, policy_losses, value_losses, i, writes>>

vars == <<pc, config, models, loops, envs, observation, trajectory, estimator>>

\* Values of the locals of train before their first assignment.
NoEpisode ==
    /\ mask = <<>> /\ values = <<>> /\ log_probs = <<>> /\ rewards = <<>>
    /\ entropies = <<>> /\ prob = <<>> /\ action = 0 /\ done = "unbound"

NoEstimate ==
    /\ R = Zeros /\ gae = Zeros /\ policy_losses = <<>> /\ value_losses = <<>>
    /\ i = 0 /\ writes = [policy |-> <<>>, value |-> <<>>]

Init ==
    /\ pc = "main"
    /\ mode \in {"train", "eval"}
    /\ num_epoch \in 0..MaxNumEpoch
    /\ train_size \in 1..MaxTrainSize
    /\ max_step \in 0..MaxMaxStep
    /\ gamma = 1 /\ gae_lambda = 1
    /\ actor_training = TRUE /\ critic_training = TRUE
    /\ actor_params = 0 /\ critic_params = 0
    /\ actor_grad = "none" /\ critic_grad = "none"
    /\ epoch = 0 /\ idx = 0
    /\ env = "none" /\ alive = 0 /\ steps = 0
    /\ mc_state = 0 /\ sn_state = 0
    /\ NoEpisode
    /\ NoEstimate

\* ------------------------------------------------------------ actions
\* main: train only when mode is 'train'.
Main ==
    /\ pc = "main"
    /\ pc' = IF mode = "train" THEN "epoch" ELSE "exit"
    /\ UNCHANGED <<config, models, loops, envs, observation, trajectory, estimator>>

\* for epoch in range(dp.num_epoch): actor.train(); critic.train()
EpochStart ==
    /\ pc = "epoch"
    /\ epoch < num_epoch
    /\ actor_training' = TrainFlag
    /\ critic_training' = TrainFlag
    /\ idx' = 0
    /\ pc' = "example"
    /\ UNCHANGED <<config, actor_params, critic_params, actor_grad, critic_grad,
                   epoch, envs, observation, trajectory, estimator>>

\* range(dp.num_epoch) is exhausted: train returns.
TrainReturn ==
    /\ pc = "epoch"
    /\ epoch = num_epoch
    /\ pc' = "exit"
    /\ UNCHANGED <<config, models, loops, envs, observation, trajectory, estimator>>

\* One example of train_loader: a new Environment, reset, empty trajectory,
\* all-ones mask.
NextExample ==
    /\ pc = "example"
    /\ idx < train_size
    /\ env' = "open"
    /\ alive' = alive + 1
    /\ steps' = 0
    /\ \E o \in Obs : mc_state' = o[1] /\ sn_state' = o[2]
    /\ values' = <<>> /\ log_probs' = <<>> /\ rewards' = <<>> /\ entropies' = <<>>
    /\ mask' = Ones(action_space_n)
    /\ pc' = IF RangeHasNext(0, max_step) THEN "rollout" ELSE "bootstrap"
    /\ UNCHANGED <<config, models, loops, prob, action, done, estimator>>

\* train_loader is exhausted: the epoch's summary, then the next epoch.
EpochEnd ==
    /\ pc = "example"
    /\ idx = train_size
    /\ epoch' = epoch + 1
    /\ pc' = "epoch"
    /\ UNCHANGED <<config, models, idx, envs, observation, trajectory, estimator>>

\* One iteration of "for _ in range(dp.max_step)".
RolloutStep ==
    /\ pc = "rollout"
    /\ env = "open"
    /\ LET logit == AddMaskLog(Actor(mc_state, sn_state, actor_params), mask)
           p == Softmax(logit)
           log_prob == LogSoftmax(logit)
           entropy == EntropyOf(log_prob, p)
           value == Critic(mc_state, sn_state, critic_params)
       IN  \E a \in (IF actor_training THEN Sample(p) ELSE {TorchMax(p)[2]}),
              o \in Obs, reward \in Rewards, d \in BOOLEAN :
             LET logp == IF actor_training THEN LogProb(p, a)
                         ELSE LogOf(TorchMax(p)[1])
             IN  /\ prob' = p
                 /\ action' = a
                 /\ mc_state' = o[1] /\ sn_state' = o[2]
                 /\ done' = IF d THEN "True" ELSE "False"
                 /\ values' = Append(values, value)
                 /\ rewards' = Append(rewards, reward)
                 /\ log_probs' = Append(log_probs, logp)
                 /\ entropies' = Append(entropies, entropy)
                 /\ steps' = steps + 1
                 /\ env' = CloseIfDone(env, d)
                 /\ alive' = IF CloseIfDone(env, d) = "closed"
                             THEN alive - 1 ELSE alive
                 /\ pc' = IF ~d /\ RangeHasNext(Len(rewards) + 1, max_step)
                          THEN "rollout" ELSE "bootstrap"
    /\ UNCHANGED <<config, models, loops, mask, estimator>>

\* After the rollout: episode metrics, the bootstrap value R appended to
\* values, gae and the loss vectors initialised.
Bootstrap ==
    /\ pc = "bootstrap"
    /\ done # "unbound"
    /\ LET R0 == BootstrapValue(done, mc_state, sn_state, critic_params)
       IN  /\ R' = R0
           /\ values' = Append(values, R0)
    /\ gae' = Zeros
    /\ policy_losses' = ZeroLosses(Len(rewards), ZeroPolicyLoss)
    /\ value_losses' = ZeroLosses(Len(rewards), Zeros)
    /\ writes' = [policy |-> [k \in 1..Len(rewards) |-> 0],
                  value |-> [k \in 1..Len(rewards) |-> 0]]
    /\ i' = Len(rewards)
    /\ pc' = IF Len(rewards) = 0 THEN "actor_zero_grad" ELSE "gae"
    /\ UNCHANGED <<config, models, loops, envs, observation, mask, log_probs,
                   rewards, entropies, prob, action, done>>

\* "if not done" with done never assigned (max_step = 0): NameError.
BootstrapUnbound ==
    /\ pc = "bootstrap"
    /\ done = "unbound"
    /\ pc' = "crashed"
    /\ UNCHANGED <<config, models, loops, envs, observation, trajectory, estimator>>

\* One iteration of "for i in reversed(range(len(rewards)))".
GaeStep ==
    /\ pc = "gae"
    /\ i >= 1
    /\ LET reward == rewards[i][1]
           R1 == [v |-> gamma * R.v + reward, deps |-> R.deps]
           advantage == [v |-> R1.v - values[i].v,
                         deps |-> R1.deps \cup values[i].deps]
           delta_t == DeltaT(reward, gamma, values[i + 1], values[i])
           gae1 == GaeAcc(gae, gamma, gae_lambda, delta_t)
       IN  /\ R' = R1
           /\ value_losses' = [value_losses EXCEPT ![i] = ValueLoss(advantage)]
           /\ gae' = gae1
           /\ policy_losses' = [policy_losses EXCEPT
                                  ![i] = PolicyLoss(log_probs[i], gae1, entropies[i])]
           /\ writes' = [policy |-> [writes.policy EXCEPT ![i] = @ + 1],
                         value |-> [writes.value EXCEPT ![i] = @ + 1]]
    /\ i' = i - 1
    /\ pc' = IF i = 1 THEN "actor_zero_grad" ELSE "gae"
    /\ UNCHANGED <<config, models, loops, envs, observation, trajectory>>

vars_but_pc_models == <<config, loops, envs, observation, trajectory, estimator>>

\* actor_optim.zero_grad()
ActorZeroGrad ==
    /\ pc = "actor_zero_grad"
    /\ actor_grad' = "zero"
    /\ pc' = "actor_backward"
    /\ UNCHANGED <<vars_but_pc_models, actor_training, critic_training,
                   actor_params, critic_params, critic_grad>>

\* policy_losses.sum().backward()
ActorBackward ==
    /\ pc = "actor_backward"
    /\ LossDeps(policy_losses) # {}
    /\ actor_grad' = IF "actor" \in LossDeps(policy_losses) THEN "raw" ELSE actor_grad
    /\ critic_grad' = IF "critic" \in LossDeps(policy_losses) THEN "raw" ELSE critic_grad
    /\ pc' = "actor_clip"
    /\ UNCHANGED <<vars_but_pc_models, actor_training, critic_training,
                   actor_params, critic_params>>

\* torch.nn.utils.clip_grad_norm_(actor.parameters(), dp.max_grad_norm)
ActorClip ==
    /\ pc = "actor_clip"
    /\ actor_grad' = IF actor_grad = "raw" THEN "clipped" ELSE actor_grad
    /\ pc' = "actor_step"
    /\ UNCHANGED <<vars_but_pc_models, actor_training, critic_training,
                   actor_params, critic_params, critic_grad>>

\* actor_optim.step()
ActorStep ==
    /\ pc = "actor_step"
    /\ actor_params' = OptimStep(actor_params)
    /\ pc' = "critic_zero_grad"
    /\ UNCHANGED <<vars_but_pc_models, actor_training, critic_training,
                   critic_params, actor_grad, critic_grad>>

\* critic_optim.zero_grad()
CriticZeroGrad ==
    /\ pc = "critic_zero_grad"
    /\ critic_grad' = "zero"
    /\ pc' = "critic_backward"
    /\ UNCHANGED <<vars_but_pc_models, actor_training, critic_training,
                   actor_params, critic_params, actor_grad>>

\* value_losses.sum().backward()
CriticBackward ==
    /\ pc = "critic_backward"
    /\ LossDeps(value_losses) # {}
    /\ critic_grad' = IF "critic" \in LossDeps(value_losses) THEN "raw" ELSE critic_grad
    /\ actor_grad' = IF "actor" \in LossDeps(value_losses) THEN "raw" ELSE actor_grad
    /\ pc' = "critic_clip"
    /\ UNCHANGED <<vars_but_pc_models, actor_training, critic_training,
                   actor_params, critic_params>>

\* torch.nn.utils.clip_grad_norm_(critic.parameters(), dp.max_grad_norm)
CriticClip ==
    /\ pc = "critic_clip"
    /\ critic_grad' = IF critic_grad = "raw" THEN "clipped" ELSE critic_grad
    /\ pc' = "critic_step"
    /\ UNCHANGED <<vars_but_pc_models, actor_training, critic_training,
                   actor_params, critic_params, actor_grad>>

\* critic_optim.step()
CriticStep ==
    /\ pc = "critic_step"
    /\ critic_params' = OptimStep(critic_params)
    /\ pc' = "report"
    /\ UNCHANGED <<vars_but_pc_models, actor_training, critic_training,
                   actor_params, actor_grad, critic_grad>>

\* The running means and the periodic log line; the loop moves to the next
\* example. The locals of the finished episode are dead from here on (each
\* is assigned again before it is read) and are put back to their blank
\* values.
Report ==
    /\ pc = "report"
    /\ idx' = idx + 1
    /\ pc' = "example"
    /\ mask' = <<>> /\ values' = <<>> /\ log_probs' = <<>> /\ rewards' = <<>>
    /\ entropies' = <<>> /\ prob' = <<>> /\ action' = 0
    /\ mc_state' = 0 /\ sn_state' = 0
    /\ R' = Zeros /\ gae' = Zeros /\ policy_losses' = <<>> /\ value_losses' = <<>>
    /\ i' = 0 /\ writes' = [policy |-> <<>>, value |-> <<>>]
    /\ UNCHANGED <<config, models, epoch, envs, done>>

Next ==
    \/ Main
    \/ EpochStart
    \/ TrainReturn
    \/ NextExample
    \/ EpochEnd
    \/ RolloutStep
    \/ Bootstrap
    \/ BootstrapUnbound
    \/ GaeStep
    \/ ActorZeroGrad
    \/ ActorBackward
    \/ ActorClip
    \/ ActorStep
    \/ CriticZeroGrad
    \/ CriticBackward
    \/ CriticClip
    \/ CriticStep
    \/ Report

Spec == Init /\ [][Next]_vars

\* ------------------------------------------- the rollout collector alone
\* One episode of the rollout loop on a fresh, reset Environment, with the
\* policy model in either mode and any action mask that allows an action.
Masks == {m \in [Actions -> {0, 1}] : \E a \in Actions : m[a] = 1}

InitRollout ==
    /\ pc = "rollout"
    /\ mode = "train"
    /\ num_epoch = 1 /\ train_size = 1
    /\ max_step \in 1..MaxMaxStep
    /\ gamma = 1 /\ gae_lambda = 1
    /\ actor_training \in BOOLEAN /\ critic_training = actor_training
    /\ actor_params \in 0..(Len(ActorTable) - 1) /\ critic_params = 0
    /\ actor_grad = "none" /\ critic_grad = "none"
    /\ epoch = 0 /\ idx = 0
    /\ env = "open" /\ alive = 1 /\ steps = 0
    /\ \E o \in Obs : mc_state = o[1] /\ sn_state = o[2]
    /\ mask \in Masks
    /\ values = <<>> /\ log_probs = <<>> /\ rewards = <<>> /\ entropies = <<>>
    /\ prob = <<>> /\ action = 0 /\ done = "unbound"
    /\ NoEstimate

NextRollout == RolloutStep

SpecRollout == InitRollout /\ [][NextRollout]_vars

\* --------------------------------- the return/advantage estimator alone
\* The reverse loop on any trajectory of length 1..GaeMaxLen, as the
\* bootstrap leaves it: values one longer than rewards, R its last entry.
GaeValues == {[v |-> n, deps |-> {"critic"}] : n \in 1..GaeMaxValue}

GaeBootstraps == {[v |-> n, deps |-> {}] : n \in 0..GaeMaxValue}

GaeRewards == {<<0, 7>>, <<1, 7>>}

GaeLogProb == [log |-> <<1, action_space_n>>, deps |-> {"actor"}]

GaeEntropy == [H |-> [a \in Actions |-> <<1, action_space_n>>], deps |-> {"actor"}]

InitGae ==
    /\ pc = "gae"
    /\ mode = "train"
    /\ num_epoch = 1 /\ train_size = 1
    /\ gamma \in {0, 1} /\ gae_lambda \in {0, 1}
    /\ actor_training = TRUE /\ critic_training = TRUE
    /\ actor_params = 0 /\ critic_params = 0
    /\ actor_grad = "none" /\ critic_grad = "none"
    /\ epoch = 0 /\ idx = 0
    /\ env = "open" /\ alive = 1
    /\ mc_state = 0 /\ sn_state = 0
    /\ mask = Ones(action_space_n)
    /\ prob = <<>> /\ action = 0 /\ done = "False"
    /\ \E T \in 1..GaeMaxLen :
         /\ max_step = T /\ steps = T /\ i = T
         /\ rewards \in [1..T -> GaeRewards]
         /\ \E vs \in [1..T -> GaeValues], b \in GaeBootstraps :
              /\ values = Append(vs, b)
              /\ R = b
         /\ log_probs = [k \in 1..T |-> GaeLogProb]
         /\ entropies = [k \in 1..T |-> GaeEntropy]
         /\ policy_losses = ZeroLosses(T, ZeroPolicyLoss)
         /\ value_losses = ZeroLosses(T, Zeros)
         /\ writes = [policy |-> [k \in 1..T |-> 0], value |-> [k \in 1..T |-> 0]]
    /\ gae = Zeros

NextGae == GaeStep

SpecGAE == InitGae /\ [][NextGae]_vars

\* =============================================================== claims
\* Positions of train inside one episode, after its rollout, after its
\* reverse loop.
OptimizerPcs == {"actor_zero_grad", "actor_backward", "actor_clip", "actor_step",
                 "critic_zero_grad", "critic_backward", "critic_clip",
                 "critic_step"}

AfterGaePcs == OptimizerPcs \cup {"report"}

AfterBootstrapPcs == {"gae"} \cup AfterGaePcs

AfterRolloutPcs == {"bootstrap"} \cup AfterBootstrapPcs

EpisodePcs == {"rollout"} \cup AfterRolloutPcs

\* C1: for max_step >= 1 the rollout loop of an episode makes at most
\* max_step environment steps and then stops: it goes on only after a step
\* that reported done=False and only below max_step, and when it has stopped
\* without any done=True the trajectory (rewards, log_probs, entropies) has
\* length exactly max_step.
C1_RolloutBounded ==
    (max_step >= 1 /\ pc \in EpisodePcs) =>
        /\ steps <= max_step
        /\ Len(rewards) = steps
        /\ (pc = "rollout" => steps < max_step)
        /\ (pc = "rollout" /\ steps >= 1 => done = "False")
        /\ (pc \in AfterRolloutPcs => done = "True" \/ steps = max_step)
        /\ (pc \in AfterRolloutPcs /\ done = "False" =>
               /\ Len(rewards) = max_step
               /\ Len(log_probs) = max_step
               /\ Len(entropies) = max_step)

C1_Witness ==
    /\ pc = "bootstrap" /\ done = "False"
    /\ max_step = MaxMaxStep /\ max_step >= 2
    /\ Len(rewards) = max_step /\ steps = max_step

\* C2: with T the number of environment steps of the episode, once the
\* bootstrap value is appended len(values) = len(rewards) + 1 = T + 1 and
\* len(log_probs) = len(entropies) = T; the loss vectors have T entries, the
\* reverse loop has assigned exactly the entries above i once each, and after
\* the loop every one of the T entries of both vectors was assigned once.
C2_Lengths ==
    pc \in AfterBootstrapPcs =>
        /\ Len(rewards) = steps
        /\ Len(values) = steps + 1
        /\ Len(log_probs) = steps
        /\ Len(entropies) = steps
        /\ Len(policy_losses) = steps
        /\ Len(value_losses) = steps
        /\ DOMAIN writes.policy = 1..steps
        /\ DOMAIN writes.value = 1..steps
        /\ \A k \in 1..steps :
              /\ writes.policy[k] = (IF k > i THEN 1 ELSE 0)
              /\ writes.value[k] = (IF k > i THEN 1 ELSE 0)
        /\ (pc \in AfterGaePcs => i = 0)

C2_Witness ==
    /\ pc = "actor_zero_grad"
    /\ steps = 2
    /\ Len(values) = 3
    /\ writes.policy = <<1, 1>> /\ writes.value = <<1, 1>>

\* C3: before the first iteration of the reverse loop R is zero when the
\* last step of the episode reported done=True and otherwise the detached
\* value the critic gives, under its current parameters, to the observation
\* that last step returned; that R is the entry appended to values (values[T]
\* in the code's 0-based indexing) and stays there; stated up to the
\* critic's own step, which replaces the parameters the value was taken under.
C3_BootstrapValue ==
    pc \in AfterBootstrapPcs \ {"report"} =>
        LET expected == IF done = "True" THEN [v |-> 0, deps |-> {}]
                        ELSE [v |-> Critic(mc_state, sn_state, critic_params).v,
                              deps |-> {}]
        IN  /\ done \in {"True", "False"}
            /\ values[steps + 1] = expected
            /\ (pc = "gae" /\ i = steps => R = expected)

C3_Witness ==
    /\ pc = "gae" /\ i = steps
    /\ done = "False"
    /\ steps = 2
    /\ R.v = Critic(mc_state, sn_state, critic_params).v
    /\ R.v # values[steps].v
    /\ R.deps = {}

\* C4: in an episode the Environment is closed exactly when a step has
\* reported done=True: it is open while the loop goes on (so no step follows
\* a close), after the loop it is closed if and only if the last step
\* reported done=True, the record of that step is already appended, and an
\* episode cut off at max_step leaves it open.
C4_CloseOnDone ==
    (pc \in EpisodePcs /\ steps >= 1) =>
        /\ (env = "closed" <=> done = "True")
        /\ (env = "open" <=> done = "False")
        /\ (pc = "rollout" => env = "open")
        /\ (env = "closed" => Len(rewards) = steps /\ Len(values) >= steps)
        /\ (pc \in AfterRolloutPcs /\ done = "False" =>
               env = "open" /\ steps = max_step)

C4_Witness ==
    /\ pc = "bootstrap"
    /\ done = "True" /\ env = "closed"
    /\ steps = 1 /\ steps < max_step
    /\ Len(rewards) = 1

\* C5: every Environment is closed by the time its episode ends, whether
\* the episode ended naturally or by truncation at max_step, so at most one
\* Environment is alive (created and not yet closed) at any time.
C5_EveryEnvClosed ==
    /\ (pc \in AfterRolloutPcs => env = "closed")
    /\ alive <= 1

\* C9: per example the phases come in the order rollout, reverse loop,
\* policy update (zero_grad, backward, clip, step), value update (zero_grad,
\* backward, clip, step); both parameter versions equal the number of
\* finished episodes throughout rollout and reverse loop, the policy's is
\* one ahead from its step on, the value's from its own step on, and a run
\* that returns has made num_epoch * train_size updates of each model.
Finished ==
    IF pc \in {"main", "epoch", "exit", "crashed"}
    THEN epoch * train_size ELSE epoch * train_size + idx

C9_PhaseOrder ==
    /\ (pc \in {"main", "epoch", "example", "exit", "crashed", "rollout",
                "bootstrap", "gae", "actor_zero_grad", "actor_backward",
                "actor_clip", "actor_step"} =>
            actor_params = Finished /\ critic_params = Finished)
    /\ (pc \in {"critic_zero_grad", "critic_backward", "critic_clip",
                "critic_step"} =>
            actor_params = Finished + 1 /\ critic_params = Finished)
    /\ (pc = "report" =>
            actor_params = Finished + 1 /\ critic_params = Finished + 1)
    /\ (pc = "exit" /\ mode = "train" =>
            /\ actor_params = num_epoch * train_size
            /\ critic_params = num_epoch * train_size)
    /\ (pc \in EpisodePcs => env # "none")
    /\ (pc \in AfterBootstrapPcs => done = "True" \/ steps = max_step)
    /\ (pc \in AfterGaePcs => i = 0 /\ Len(policy_losses) = steps)
    /\ (pc = "actor_backward" => actor_grad = "zero")
    /\ (pc = "actor_clip" => actor_grad = "raw")
    /\ (pc = "actor_step" => actor_grad = "clipped")
    /\ (pc = "critic_backward" => critic_grad = "zero" /\ actor_grad = "clipped")
    /\ (pc = "critic_clip" => critic_grad = "raw" /\ actor_grad = "clipped")
    /\ (pc = "critic_step" => critic_grad = "clipped")

C9_Witness ==
    /\ pc = "exit" /\ mode = "train"
    /\ num_epoch = MaxNumEpoch /\ train_size = MaxTrainSize
    /\ num_epoch >= 2 /\ train_size >= 2
    /\ actor_params = num_epoch * train_size
    /\ critic_params = num_epoch * train_size

\* C10: in train every step is taken with the policy model in training
\* mode, so the action comes from the sampling branch and never from the
\* greedy one; with a mode other than 'train' main creates no Environment
\* and makes no step.
C10_AlwaysSampling ==
    /\ (pc \in EpisodePcs \cup {"example"} => actor_training = TRUE)
    /\ (pc \in EpisodePcs /\ steps >= 1 => action \in Sample(prob))
    /\ (mode # "train" =>
            /\ pc \in {"main", "exit"}
            /\ env = "none" /\ alive = 0 /\ steps = 0 /\ epoch = 0
            /\ actor_params = 0 /\ critic_params = 0)

C10_Witness ==
    /\ pc = "rollout" /\ mode = "train"
    /\ epoch = 1 /\ steps >= 1
    /\ actor_training = TRUE
    /\ action \in Actions

\* C7: in evaluation mode the action of a step is the index of the maximal
\* probability of that step's distribution, the lowest such index on a tie
\* (weights 2, 5, 3, i.e. [0.2, 0.5, 0.3], give the code's action 1, the
\* second entry), and the recorded log-probability is the log of that
\* action's probability.
C7_GreedyArgmax ==
    (~actor_training /\ steps >= 1) =>
        /\ action \in DOMAIN prob
        /\ \A b \in DOMAIN prob : prob[b][1] <= prob[action][1]
        /\ \A b \in DOMAIN prob : b < action => prob[b][1] < prob[action][1]
        /\ log_probs[steps].log = prob[action]
        /\ (prob = << <<2, 10>>, <<5, 10>>, <<3, 10>> >> => action = 2)

C7_Witness ==
    /\ ~actor_training /\ steps >= 1
    /\ prob = << <<5, 12>>, <<5, 12>>, <<2, 12>> >>
    /\ action = 1
    /\ log_probs[steps].log = <<5, 12>>

\* C8: in training mode the action passed to Environment.step is never one
\* the mask forbids; under a one-hot mask it is the single allowed action at
\* every step.
C8_MaskedNeverSampled ==
    (actor_training /\ steps >= 1) =>
        /\ action \in Actions
        /\ mask[action] = 1
        /\ prob[action][1] > 0
        /\ \A a \in Actions :
               (mask[a] = 1 /\ \A b \in Actions \ {a} : mask[b] = 0) => action = a

C8_Witness ==
    /\ actor_training
    /\ mask = <<0, 1, 0>>
    /\ steps = max_step /\ steps >= 2
    /\ action = 2

\* C6: with all rewards zero and gamma = gae_lambda = 1 the gae used for
\* the policy loss of step k is the sum of value[j+1] - value[j] over
\* j = k..T-1, that is value[T] - value[k]; values 1, 2, 3, 4 give 3, 2, 1.
RECURSIVE SumDiffs(_, _, _)
SumDiffs(vs, k, n) ==
    IF k > n THEN 0 ELSE (vs[k + 1].v - vs[k].v) + SumDiffs(vs, k + 1, n)

C6_GaeTelescopes ==
    (/\ pc \in {"gae", "actor_zero_grad"}
     /\ gamma = 1 /\ gae_lambda = 1
     /\ \A k \in 1..steps : rewards[k][1] = 0) =>
        /\ \A k \in (i + 1)..steps :
              /\ policy_losses[k].gae = SumDiffs(values, k, steps)
              /\ policy_losses[k].gae = values[steps + 1].v - values[k].v
        /\ (i < steps => gae.v = values[steps + 1].v - values[i + 1].v)
        /\ ((i = 0 /\ [k \in 1..Len(values) |-> values[k].v] = <<1, 2, 3, 4>>) =>
               [k \in 1..steps |-> policy_losses[k].gae] = <<3, 2, 1>>)

C6_Witness ==
    /\ pc = "actor_zero_grad" /\ i = 0
    /\ gamma = 1 /\ gae_lambda = 1
    /\ steps = 3
    /\ \A k \in 1..3 : rewards[k][1] = 0
    /\ [k \in 1..4 |-> values[k].v] = <<1, 2, 3, 4>>
    /\ [k \in 1..3 |-> policy_losses[k].gae] = <<3, 2, 1>>

====
